---------------------------- MODULE Spec2Model ----------------------------
(***************************************************************************)
(* A model of the result store (src/macd_trader/result_storage.py), of the *)
(* decision extractor and of run() (src/macd_trader/main.py), of the batch *)
(* notification (src/macd_trader/notification.py) and of get_macd          *)
(* (src/macd_trader/tools).                                                *)
(*                                                                         *)
(* Text is a sequence of one-character strings.  A calendar date is its    *)
(* proleptic ordinal (date.min has ordinal 1); its ISO form is modelled as *)
(* the fixed-width, zero-padded, most-significant-first numeral that       *)
(* YYYY-MM-DD is.  An optional argument is <<>> (None) or <<v>>.           *)
(***************************************************************************)
EXTENDS Integers, Sequences, FiniteSets, TLC

VARIABLES
    files,      \* the results directory: path <<dir name, file name>> -> file content
    dirs,       \* the ticker directories that exist under the results directory
    today,      \* what date.today() returns
    saved,      \* history: path -> the arguments of the latest save_result on it
    nsaves,     \* number of save_result calls made so far
    last,       \* the latest call: its name, its arguments and what it returned
    text,       \* the string handed to extract_decision_from_result
    decision,   \* <<>> or <<what extract_decision_from_result returned for text>>
    calls,      \* the calls of send_wechat_notification made so far: <<subject, body>> each
    stocks,     \* run(): the list load_stocks_config returned
    pc,         \* run(): where the control is
    idx,        \* run(): the position in stocks of the stock the loop is at
    run_result, \* run(): <<>> or <<what run_single_stock returned for that stock>>
    reports,    \* run(): the list of the results of the stocks analyzed so far
    log,        \* run(): what has happened so far, in order
    hist        \* the closing prices the price history provider returns, oldest first

notifyVars == <<calls>>

runVars == <<stocks, pc, idx, run_result, reports, log>>

macdVars == <<hist>>

vars == <<files, dirs, today, saved, nsaves, last, text, decision,
          notifyVars, runVars, macdVars>>

-----------------------------------------------------------------------------
(* Bounds of the model *)

\* save_result is called at most MaxSaves times in a behaviour
MaxSaves == 2

\* date.today() advances at most to this ordinal
MaxDate == 10

\* date.today() when the program starts
Today0 == 9

\* at most MaxTokens fragments are concatenated into a text
MaxTokens == 3

-----------------------------------------------------------------------------
(* Characters and strings *)

\* the characters of file names, in ascending code point order
CodeOrder == <<".", "0", "1", "2", "3", "4", "5", "6", "7", "8", "9",
               "j", "n", "o", "s", "x">>

Ord(c) == CHOOSE i \in 1..Len(CodeOrder) : CodeOrder[i] = c

DigitChars == <<"0", "1", "2", "3", "4", "5", "6", "7", "8", "9">>

IsDigit(c) == \E i \in 1..10 : DigitChars[i] = c

DigitVal(c) == (CHOOSE i \in 1..10 : DigitChars[i] = c) - 1

\* str < str in Python: lexicographic by code point, a proper prefix first
RECURSIVE StrLess(_, _)
StrLess(a, b) ==
    IF a = <<>> THEN b # <<>>
    ELSE IF b = <<>> THEN FALSE
    ELSE IF Head(a) # Head(b) THEN Ord(Head(a)) < Ord(Head(b))
    ELSE StrLess(Tail(a), Tail(b))

\* sorted(...) over a set of names
RECURSIVE Sorted(_)
Sorted(S) ==
    IF S = {} THEN <<>>
    ELSE LET m == CHOOSE x \in S : \A y \in S \ {x} : StrLess(x, y)
         IN <<m>> \o Sorted(S \ {m})

StartsWithAt(s, i, p) ==
    /\ i + Len(p) - 1 <= Len(s)
    /\ \A k \in 1..Len(p) : s[i + k - 1] = p[k]

EndsWith(s, p) ==
    /\ Len(p) <= Len(s)
    /\ StartsWithAt(s, Len(s) - Len(p) + 1, p)

-----------------------------------------------------------------------------
(* Dates *)

\* date.min, as an ordinal
DateMin == 1

\* date.isoformat(): fixed width, zero padded
isoformat(d) == <<DigitChars[(d \div 10) + 1], DigitChars[(d % 10) + 1]>>

\* date.fromisoformat(stem): <<date>>, or <<>> for the ValueError it raises
fromisoformat(stem) ==
    IF /\ Len(stem) = Len(isoformat(DateMin))
       /\ \A i \in 1..Len(stem) : IsDigit(stem[i])
       /\ DigitVal(stem[1]) * 10 + DigitVal(stem[2]) >= DateMin
    THEN <<DigitVal(stem[1]) * 10 + DigitVal(stem[2])>>
    ELSE <<>>

\* datetime.now().isoformat(): the date, "T", the time of day (left out)
now_isoformat(now) == isoformat(now) \o <<"T">>

-----------------------------------------------------------------------------
(* JSON files *)

JsonSuffix == <<".", "j", "s", "o", "n">>

\* json.dump(data, f): the object's members as written to the file
json_dump(data) == [kind |-> "json", members |-> {<<k, data[k]>> : k \in DOMAIN data}]

CorruptContent == [kind |-> "garbage"]

\* whether json.load(f) returns (otherwise it raises json.JSONDecodeError)
json_parses(content) == content.kind = "json"

\* json.load(f) of a file that parses
json_load(content) ==
    [k \in {m[1] : m \in content.members} |->
        (CHOOSE m \in content.members : m[1] = k)[2]]

\* {**a, **b}: on a shared key the later operand wins
DictMerge(a, b) == b @@ a

-----------------------------------------------------------------------------
(* result_storage.py *)

\* what a call returned, or the exception it raised
ReturnedNone == [kind |-> "None"]
Returned(v) == [kind |-> "value", val |-> v]
Raised(exc) == [kind |-> "raise", exc |-> exc]

\* a sanitizer that replaces the first "." only, as ticker.replace(".", "_", 1)
sanitize_first_dot(ticker) ==
    IF \E i \in 1..Len(ticker) : ticker[i] = "."
    THEN LET i == CHOOSE j \in 1..Len(ticker) :
                      ticker[j] = "." /\ \A k \in 1..(j - 1) : ticker[k] # "."
         IN [k \in 1..Len(ticker) |-> IF k = i THEN "_" ELSE ticker[k]]
    ELSE ticker

\* ticker.replace(".", "_")
RECURSIVE sanitize_ticker(_)
sanitize_ticker(ticker) ==
    IF ticker = <<>> THEN <<>>
    ELSE <<IF Head(ticker) = "." THEN "_" ELSE Head(ticker)>>
         \o sanitize_ticker(Tail(ticker))

\* Path(results_dir) / safe_ticker / f"{result_date.isoformat()}.json"
FilePath(ticker, d) == <<sanitize_ticker(ticker), isoformat(d) \o JsonSuffix>>

\* the dict literal of save_result: the metadata, then **result
RecordData(ticker, result, d, now) ==
    DictMerge([ticker |-> ticker, date |-> isoformat(d), saved_at |-> now_isoformat(now)],
              result)

\* a write that updates the record already in the file instead of replacing it
WriteFile_merge(fs, path, data) ==
    (path :> json_dump(IF path \in DOMAIN fs /\ json_parses(fs[path])
                       THEN DictMerge(json_load(fs[path]), data)
                       ELSE data)) @@ fs

\* a write that empties the ticker directory before it writes the file
WriteFile_clear_dir(fs, path, data) ==
    [p \in {q \in DOMAIN fs : q[1] # path[1]} \cup {path} |->
        IF p = path THEN json_dump(data) ELSE fs[p]]

\* open(file_path, "w") and json.dump: the file is created or truncated, then written
WriteFile(fs, path, data) == (path :> json_dump(data)) @@ fs

\* a load_result that opens the file without asking whether it exists
load_result_unchecked(fs, ticker, d) ==
    IF FilePath(ticker, d) \notin DOMAIN fs THEN Raised("FileNotFoundError")
    ELSE IF json_parses(fs[FilePath(ticker, d)])
         THEN Returned(json_load(fs[FilePath(ticker, d)]))
         ELSE Raised("JSONDecodeError")

\* load_result(ticker, result_date)
load_result(fs, ticker, d) ==
    LET path == FilePath(ticker, d)
    IN IF path \notin DOMAIN fs THEN ReturnedNone
       ELSE IF json_parses(fs[path]) THEN Returned(json_load(fs[path]))
       ELSE Raised("JSONDecodeError")

\* a date range that tests last_n_days for truth, so that 0 counts as not given
DateRange_truthy(now, start_date, end_date, last_n_days) ==
    IF last_n_days # <<>> /\ last_n_days[1] # 0
    THEN IF now - last_n_days[1] < DateMin THEN <<>>
         ELSE <<now - last_n_days[1], now>>
    ELSE <<IF start_date = <<>> THEN DateMin ELSE start_date[1],
           IF end_date = <<>> THEN now ELSE end_date[1]>>

\* a date range in which a given start_date or end_date overrides last_n_days
DateRange_explicit_first(now, start_date, end_date, last_n_days) ==
    IF last_n_days # <<>> /\ start_date = <<>> /\ end_date = <<>>
    THEN IF now - last_n_days[1] < DateMin THEN <<>>
         ELSE <<now - last_n_days[1], now>>
    ELSE <<IF start_date = <<>> THEN DateMin ELSE start_date[1],
           IF end_date = <<>> THEN now ELSE end_date[1]>>

\* load_history's date range: <<start_date, end_date>>, or <<>> when
\* date.today() - timedelta(days=last_n_days) raises OverflowError
DateRange(now, start_date, end_date, last_n_days) ==
    IF last_n_days # <<>>
    THEN IF now - last_n_days[1] < DateMin THEN <<>>
         ELSE <<now - last_n_days[1], now>>
    ELSE <<IF start_date = <<>> THEN DateMin ELSE start_date[1],
           IF end_date = <<>> THEN now ELSE end_date[1]>>

\* ticker_dir.glob("*.json"): the names of the directory's files that match
Glob(fs, dir) == {p[2] : p \in {q \in DOMAIN fs : q[1] = dir /\ EndsWith(q[2], JsonSuffix)}}

\* json_file.stem
Stem(name) == SubSeq(name, 1, Len(name) - Len(JsonSuffix))

\* a loop with the try around it: the first bad file ends the scan
RECURSIVE ScanFiles_abort(_, _, _, _, _)
ScanFiles_abort(fs, dir, names, start_date, end_date) ==
    IF names = <<>> THEN <<>>
    ELSE LET name == Head(names)
             file_date == fromisoformat(Stem(name))
             rest == ScanFiles_abort(fs, dir, Tail(names), start_date, end_date)
         IN IF file_date = <<>> THEN <<>>
            ELSE IF ~(start_date <= file_date[1] /\ file_date[1] <= end_date) THEN rest
            ELSE IF ~json_parses(fs[<<dir, name>>]) THEN <<>>
            ELSE <<json_load(fs[<<dir, name>>])>> \o rest

\* the loop of load_history over the sorted files: a file whose stem is no date
\* (ValueError) or whose content does not parse (JSONDecodeError) is skipped
RECURSIVE ScanFiles(_, _, _, _, _)
ScanFiles(fs, dir, names, start_date, end_date) ==
    IF names = <<>> THEN <<>>
    ELSE LET name == Head(names)
             file_date == fromisoformat(Stem(name))
             rest == ScanFiles(fs, dir, Tail(names), start_date, end_date)
         IN IF file_date = <<>> THEN rest
            ELSE IF ~(start_date <= file_date[1] /\ file_date[1] <= end_date) THEN rest
            ELSE IF ~json_parses(fs[<<dir, name>>]) THEN rest
            ELSE <<json_load(fs[<<dir, name>>])>> \o rest

\* load_history(ticker, start_date, end_date, last_n_days)
load_history(fs, ds, now, ticker, start_date, end_date, last_n_days) ==
    LET safe_ticker == sanitize_ticker(ticker)
        range == DateRange(now, start_date, end_date, last_n_days)
    IN IF safe_ticker \notin ds THEN Returned(<<>>)
       ELSE IF range = <<>> THEN Raised("OverflowError")
       ELSE Returned(ScanFiles(fs, safe_ticker, Sorted(Glob(fs, safe_ticker)),
                               range[1], range[2]))

-----------------------------------------------------------------------------
(* The inputs of the calls *)

Tickers == {<<"N", ".", "U">>, <<"N", "_", "U">>, <<"B", ".", "B", ".", "U">>}

\* caller-supplied result dicts; the second also carries 'ticker' and 'date' keys
Payloads ==
    {[decision |-> <<"B", "U", "Y">>, report |-> <<"r">>],
     [decision |-> <<"S", "E", "L", "L">>, ticker |-> <<"X">>, date |-> <<"z", "z">>]}

\* result_date: None (today), or the last date the model's clock reaches
SaveDates == {<<>>, <<MaxDate>>}

\* the ticker whose load is called for
LoadTickers == {<<"N", ".", "U">>, <<"B", ".", "B", ".", "U">>}

\* the dates the calls are made with
CallDates == (Today0 - 1)..(MaxDate + 1)

OptionalDates == {<<>>} \cup {<<d>> : d \in CallDates}

\* last_n_days: small values, and up to and just beyond the days between
\* date.min and today
LastNDays(now) == {<<0>>, <<1>>, <<now - DateMin>>, <<now - DateMin + 1>>}

\* the <<start_date, end_date, last_n_days>> that load_history is called with
HistoryCalls(now) ==
    {<<<<>>, <<>>, <<>>>>,
     <<<<MaxDate>>, <<>>, <<>>>>,
     <<<<>>, <<Today0>>, <<>>>>,
     <<<<>>, <<>>, <<0>>>>,
     <<<<>>, <<>>, <<1>>>>,
     <<<<MaxDate>>, <<Today0>>, <<now - DateMin>>>>,
     <<<<>>, <<>>, <<now - DateMin + 1>>>>}

\* files that something other than save_result left in a ticker directory:
\* one whose name is no date, one whose content is no JSON
StrayFiles ==
    {[name |-> <<"0", "x">> \o JsonSuffix,
      content |-> json_dump([decision |-> <<"H", "O", "L", "D">>])],
     [name |-> isoformat(Today0) \o JsonSuffix, content |-> CorruptContent]}

\* the directory the stray files appear in
StrayDir == <<"N", "_", "U">>

NoCall == [op |-> "none"]

-----------------------------------------------------------------------------
(* The store's operations *)

\* save_result(ticker, result, result_date) returning normally: what it changes
save_result_call(ticker, result, result_date) ==
    /\ LET d == IF result_date = <<>> THEN today ELSE result_date[1]
           safe_ticker == sanitize_ticker(ticker)
           file_path == FilePath(ticker, d)
           data == RecordData(ticker, result, d, today)
       IN /\ dirs' = dirs \cup {safe_ticker}
          /\ files' = WriteFile(files, file_path, data)
          /\ saved' = (file_path :>
                         [ticker |-> ticker, result |-> result, date |-> d, at |-> today,
                          replaced |-> /\ file_path \in DOMAIN saved
                                       /\ saved[file_path].result # result])
                       @@ saved
          /\ last' = [op |-> "save_result", ticker |-> ticker, result |-> result,
                      date |-> d, ret |-> file_path]
    /\ nsaves' = nsaves + 1

\* a caller calls save_result(ticker, result, result_date)
save_result(ticker, result, result_date) ==
    /\ nsaves < MaxSaves
    /\ save_result_call(ticker, result, result_date)
    /\ UNCHANGED <<today, text, decision>>
    /\ UNCHANGED <<notifyVars, runVars, macdVars>>

LoadResult(ticker, d) ==
    /\ last' = [op |-> "load_result", ticker |-> ticker, date |-> d,
                ret |-> load_result(files, ticker, d)]
    /\ UNCHANGED <<files, dirs, today, saved, nsaves, text, decision>>
    /\ UNCHANGED <<notifyVars, runVars, macdVars>>

LoadHistory(ticker, start_date, end_date, last_n_days) ==
    /\ last' = [op |-> "load_history", ticker |-> ticker, start |-> start_date,
                end |-> end_date, n |-> last_n_days,
                ret |-> load_history(files, dirs, today, ticker,
                                     start_date, end_date, last_n_days)]
    /\ UNCHANGED <<files, dirs, today, saved, nsaves, text, decision>>
    /\ UNCHANGED <<notifyVars, runVars, macdVars>>

\* date.today() moves on
Tick ==
    /\ today < MaxDate
    /\ today' = today + 1
    /\ last' = NoCall
    /\ UNCHANGED <<files, dirs, saved, nsaves, text, decision>>
    /\ UNCHANGED <<notifyVars, runVars, macdVars>>

\* a file appears in an existing ticker directory, not written by save_result
StrayFile(dir, f) ==
    /\ dir \in dirs
    /\ <<dir, f.name>> \notin DOMAIN files
    /\ files' = (<<dir, f.name>> :> f.content) @@ files
    /\ last' = NoCall
    /\ UNCHANGED <<dirs, today, saved, nsaves, text, decision>>
    /\ UNCHANGED <<notifyVars, runVars, macdVars>>

NoFiles == [p \in {} |-> CorruptContent]

Init ==
    /\ files = NoFiles
    /\ dirs = {}
    /\ today = Today0
    /\ saved = NoFiles
    /\ nsaves = 0
    /\ last = NoCall
    /\ text = <<>>
    /\ decision = <<>>
    /\ calls = <<>>
    /\ stocks = <<>>
    /\ pc = "start"
    /\ idx = 0
    /\ run_result = <<>>
    /\ reports = <<>>
    /\ log = <<>>
    /\ hist = <<>>

Next ==
    \/ \E t \in Tickers, r \in Payloads, d \in SaveDates : save_result(t, r, d)
    \/ \E t \in Tickers : LoadResult(t, MaxDate)
    \/ \E t \in LoadTickers, c \in HistoryCalls(today) : LoadHistory(t, c[1], c[2], c[3])
    \/ Tick
    \/ \E f \in StrayFiles : StrayFile(StrayDir, f)

Spec == Init /\ [][Next]_vars

-----------------------------------------------------------------------------
(* main.py: extract_decision_from_result *)

BUY == <<"B", "U", "Y">>
SELL == <<"S", "E", "L", "L">>
HOLD == <<"H", "O", "L", "D">>

\* the keywords, in the order the code tries them
Keywords == <<BUY, SELL, HOLD>>

LowerLetters == <<"a", "b", "c", "d", "e", "f", "g", "h", "i", "j", "k", "l", "m",
                  "n", "o", "p", "q", "r", "s", "t", "u", "v", "w", "x", "y", "z">>

UpperLetters == <<"A", "B", "C", "D", "E", "F", "G", "H", "I", "J", "K", "L", "M",
                  "N", "O", "P", "Q", "R", "S", "T", "U", "V", "W", "X", "Y", "Z">>

\* characters outside ASCII, named by their code points: the full-width colon,
\* and the three characters that stand in the label pattern's character class
\* of the source (with the two that re.IGNORECASE adds to them)
FullWidthColon == "U+FF1A"
LabelClass == {":", "U+00EF", "U+00CF", "U+00BC", "U+0161", "U+0160"}

\* str.upper() and str.lower() of one character
UpperChar(c) ==
    IF \E i \in 1..Len(LowerLetters) : LowerLetters[i] = c
    THEN UpperLetters[CHOOSE i \in 1..Len(LowerLetters) : LowerLetters[i] = c]
    ELSE IF c = "U+00EF" THEN "U+00CF"
    ELSE IF c = "U+0161" THEN "U+0160"
    ELSE c

LowerChar(c) ==
    IF \E i \in 1..Len(UpperLetters) : UpperLetters[i] = c
    THEN LowerLetters[CHOOSE i \in 1..Len(UpperLetters) : UpperLetters[i] = c]
    ELSE IF c = "U+00CF" THEN "U+00EF"
    ELSE IF c = "U+0160" THEN "U+0161"
    ELSE c

UpperStr(s) == [i \in 1..Len(s) |-> UpperChar(s[i])]

\* \w: letters, digits, the underscore
IsWordChar(c) ==
    \/ \E i \in 1..Len(LowerLetters) : LowerLetters[i] = c \/ UpperLetters[i] = c
    \/ IsDigit(c)
    \/ c \in {"_", "U+00EF", "U+00CF", "U+00BC", "U+0161", "U+0160"}

\* \s
IsSpace(c) == c \in {" ", "\n", "\t"}

\* p in s
Contains(s, p) == \E i \in 1..Len(s) : StartsWithAt(s, i, p)

\* s[i:] starts with p, letters compared without regard to case
StartsWithAtNoCase(s, i, p) ==
    /\ i + Len(p) - 1 <= Len(s)
    /\ \A k \in 1..Len(p) : LowerChar(s[i + k - 1]) = LowerChar(p[k])

\* where \s* ends when it starts at i
RECURSIVE SkipSpaces(_, _)
SkipSpaces(s, i) ==
    IF i <= Len(s) /\ IsSpace(s[i]) THEN SkipSpaces(s, i + 1) ELSE i

\* (BUY|SELL|HOLD) at i: <<the text matched>>, or <<>>
KeywordAt(s, i, ignorecase) ==
    LET hits == {k \in 1..Len(Keywords) :
                    IF ignorecase THEN StartsWithAtNoCase(s, i, Keywords[k])
                    ELSE StartsWithAt(s, i, Keywords[k])}
    IN IF hits = {} THEN <<>>
       ELSE LET k == CHOOSE h \in hits : \A g \in hits : h <= g
            IN <<SubSeq(s, i, i + Len(Keywords[k]) - 1)>>

QuotedDecision == <<"\"", "d", "e", "c", "i", "s", "i", "o", "n", "\"">>

\* "decision"\s*:\s*"(BUY|SELL|HOLD)" at i: <<group 1>>, or <<>>
JsonFieldAt(s, i) ==
    IF ~StartsWithAt(s, i, QuotedDecision) THEN <<>>
    ELSE LET colon == SkipSpaces(s, i + Len(QuotedDecision))
             quote == SkipSpaces(s, colon + 1)
             word == KeywordAt(s, quote + 1, FALSE)
         IN IF /\ colon <= Len(s) /\ s[colon] = ":"
               /\ quote <= Len(s) /\ s[quote] = "\""
               /\ word # <<>>
               /\ quote + Len(word[1]) + 1 <= Len(s)
               /\ s[quote + Len(word[1]) + 1] = "\""
            THEN word
            ELSE <<>>

\* decision\s*[...]\s*(BUY|SELL|HOLD) under re.IGNORECASE at i, the class being
\* `colons`: <<group 1>>, or <<>>
LabelWith(s, i, colons) ==
    IF ~StartsWithAtNoCase(s, i, SubSeq(QuotedDecision, 2, Len(QuotedDecision) - 1))
    THEN <<>>
    ELSE LET colon == SkipSpaces(s, i + Len(QuotedDecision) - 2)
             word == KeywordAt(s, SkipSpaces(s, colon + 1), TRUE)
         IN IF colon <= Len(s) /\ s[colon] \in colons THEN word ELSE <<>>

\* the label pattern as the source has it
LabelAt(s, i) == LabelWith(s, i, LabelClass)

\* \b(BUY|SELL|HOLD)\b at i: <<group 1>>, or <<>>
WordAt(s, i) ==
    LET word == KeywordAt(s, i, FALSE)
    IN IF /\ word # <<>>
          /\ (i = 1 \/ ~IsWordChar(s[i - 1]))
          /\ (i + Len(word[1]) > Len(s) \/ ~IsWordChar(s[i + Len(word[1])]))
       THEN word
       ELSE <<>>

\* re.search(pattern, s): group 1 of the leftmost match, or <<>>
RECURSIVE SearchFrom(_, _, _)
SearchFrom(s, i, pattern) ==
    IF i > Len(s) THEN <<>>
    ELSE LET m == CASE pattern = "json" -> JsonFieldAt(s, i)
                    [] pattern = "label" -> LabelAt(s, i)
                    [] pattern = "word" -> WordAt(s, i)
         IN IF m # <<>> THEN m ELSE SearchFrom(s, i + 1, pattern)

\* a Pattern 1 that takes the tag that comes first in the text, as
\* re.search(r"\[(BUY|SELL|HOLD)\]", s) would
BracketTag_leftmost(s) ==
    LET at(i) == {k \in 1..Len(Keywords) :
                     StartsWithAt(s, i, <<"[">> \o Keywords[k] \o <<"]">>)}
        hits == {i \in 1..Len(s) : at(i) # {}}
    IN IF hits = {} THEN <<>>
       ELSE <<Keywords[CHOOSE k \in at(CHOOSE h \in hits : \A g \in hits : h <= g) : TRUE]>>

\* Pattern 1: the first of [BUY], [SELL], [HOLD], in that order, that is in s
BracketTag(s) ==
    LET hits == {k \in 1..Len(Keywords) :
                    Contains(s, <<"[">> \o Keywords[k] \o <<"]">>)}
    IN IF hits = {} THEN <<>>
       ELSE <<Keywords[CHOOSE h \in hits : \A g \in hits : h <= g]>>

\* the label pattern's group 1 as matched, without .upper()
LabelDecision_raw(s) == SearchFrom(s, 1, "label")[1]

\* match.group(1).upper() of the label pattern
LabelDecision(s) == UpperStr(SearchFrom(s, 1, "label")[1])

\* an extractor that tries the bare word before the label
extract_word_before_label(result_text) ==
    IF BracketTag(result_text) # <<>> THEN BracketTag(result_text)[1]
    ELSE IF SearchFrom(result_text, 1, "json") # <<>>
         THEN SearchFrom(result_text, 1, "json")[1]
    ELSE IF SearchFrom(result_text, 1, "word") # <<>>
         THEN SearchFrom(result_text, 1, "word")[1]
    ELSE IF SearchFrom(result_text, 1, "label") # <<>>
         THEN LabelDecision(result_text)
    ELSE HOLD

extract_decision_from_result(result_text) ==
    IF BracketTag(result_text) # <<>> THEN BracketTag(result_text)[1]
    ELSE IF SearchFrom(result_text, 1, "json") # <<>>
         THEN SearchFrom(result_text, 1, "json")[1]
    ELSE IF SearchFrom(result_text, 1, "label") # <<>>
         THEN LabelDecision(result_text)
    ELSE IF SearchFrom(result_text, 1, "word") # <<>>
         THEN SearchFrom(result_text, 1, "word")[1]
    ELSE HOLD

-----------------------------------------------------------------------------
(* The texts: concatenations of at most MaxTokens fragments *)

Fragments ==
    {<<"[">> \o SELL \o <<"]">>,
     <<"[">> \o BUY \o <<"]">>,
     <<"[">> \o HOLD \o <<"]">>,
     QuotedDecision \o <<" ", ":", " ", "\"">> \o HOLD \o <<"\"">>,
     <<"D", "e", "c", "i", "s", "i", "o", "n", ":", " ", "s", "e", "l", "l">>,
     <<"d", "e", "c", "i", "s", "i", "o", "n", FullWidthColon, "b", "u", "y">>,
     <<"d", "e", "c", "i", "s", "i", "o", "n", "U+00EF", " ", "s", "e", "l", "l">>,
     BUY,
     SELL,
     <<"b", "u", "y">>,
     <<" ">>,
     <<"x">>}

RECURSIVE Concat(_)
Concat(parts) == IF parts = <<>> THEN <<>> ELSE Head(parts) \o Concat(Tail(parts))

\* one more fragment is appended to the text
AppendFragment(f) ==
    /\ Len(text) < MaxTokens
    /\ text' = Append(text, f)
    /\ decision' = <<>>
    /\ UNCHANGED <<files, dirs, today, saved, nsaves, last>>
    /\ UNCHANGED <<notifyVars, runVars, macdVars>>

\* extract_decision_from_result(str(result)) is called
Extract ==
    /\ decision' = <<extract_decision_from_result(Concat(text))>>
    /\ UNCHANGED <<files, dirs, today, saved, nsaves, last, text>>
    /\ UNCHANGED <<notifyVars, runVars, macdVars>>

NextDecision ==
    \/ \E f \in Fragments : AppendFragment(f)
    \/ Extract

SpecDecision == Init /\ [][NextDecision]_vars

-----------------------------------------------------------------------------
(* What the claims speak of, stated apart from the code's way of computing it *)

MetadataKeys == {"ticker", "date", "saved_at"}

\* ticker with every "." replaced by "_"
IsDotsReplaced(ticker, name) ==
    /\ Len(name) = Len(ticker)
    /\ \A i \in 1..Len(ticker) : name[i] = IF ticker[i] = "." THEN "_" ELSE ticker[i]

\* the well-formed file of a date in a ticker directory, if there is one
HasRecord(fs, dir, d) ==
    /\ <<dir, isoformat(d) \o JsonSuffix>> \in DOMAIN fs
    /\ json_parses(fs[<<dir, isoformat(d) \o JsonSuffix>>])

\* the well-formed records of the dates lo..hi, in ascending date order
RECURSIVE RecordsBetween(_, _, _, _)
RecordsBetween(fs, dir, lo, hi) ==
    IF lo > hi THEN <<>>
    ELSE (IF HasRecord(fs, dir, lo)
          THEN <<json_load(fs[<<dir, isoformat(lo) \o JsonSuffix>>])>>
          ELSE <<>>)
         \o RecordsBetween(fs, dir, lo + 1, hi)

\* a file that is no record: its name is no ISO date or its content does not parse
IsBadFile(fs, path) ==
    \/ ~EndsWith(path[2], JsonSuffix)
    \/ fromisoformat(Stem(path[2])) = <<>>
    \/ ~json_parses(fs[path])

\* the store without its bad files
WithoutBadFiles(fs) == [p \in {q \in DOMAIN fs : ~IsBadFile(fs, q)} |-> fs[p]]

Later(a, b) == IF a > b THEN a ELSE b

-----------------------------------------------------------------------------
(* C1 *)

\* C1: after any sequence of save_result calls there is at most one record per
\* (sanitized ticker, date), and load_result of a saved key returns the latest
\* save's content: each of its caller-supplied fields with the caller's value,
\* and no key besides those and the three metadata keys (nothing of an earlier
\* save survives).
C1_LastWriteWins ==
    /\ \A dir \in dirs, d \in DateMin..(MaxDate + 1) :
          Cardinality({name \in Glob(files, dir) :
                          /\ fromisoformat(Stem(name)) = <<d>>
                          /\ json_parses(files[<<dir, name>>])}) <= 1
    /\ \A path \in DOMAIN saved :
          LET a == saved[path]
              r == load_result(files, a.ticker, a.date)
          IN /\ r.kind = "value"
             /\ DOMAIN r.val = DOMAIN a.result \cup MetadataKeys
             /\ \A k \in DOMAIN a.result : r.val[k] = a.result[k]
    /\ (last.op = "load_result" /\ FilePath(last.ticker, last.date) \in DOMAIN saved)
          => LET a == saved[FilePath(last.ticker, last.date)]
             IN /\ last.ret.kind = "value"
                /\ DOMAIN last.ret.val = DOMAIN a.result \cup MetadataKeys
                /\ \A k \in DOMAIN a.result : last.ret.val[k] = a.result[k]

\* a load_result has returned the second of two different contents saved under
\* one key, the first of which had a 'report' field that the second has not
C1_Witness ==
    /\ last.op = "load_result"
    /\ FilePath(last.ticker, last.date) \in DOMAIN saved
    /\ saved[FilePath(last.ticker, last.date)].replaced
    /\ last.ret.kind = "value"
    /\ "report" \notin DOMAIN last.ret.val

-----------------------------------------------------------------------------
(* C2 *)

\* C2: after save_result(ticker, result, result_date) the stored record's
\* 'ticker' is the ticker argument and its 'date' the ISO form of result_date,
\* also when result itself has a 'ticker' or a 'date' key; every other
\* caller-supplied key is stored with the caller's value.
C2_MetadataWins ==
    last.op = "save_result"
        => LET rec == json_load(files[last.ret])
           IN /\ rec["ticker"] = last.ticker
              /\ rec["date"] = isoformat(last.date)
              /\ \A k \in DOMAIN last.result \ {"ticker", "date"} :
                    rec[k] = last.result[k]

-----------------------------------------------------------------------------
(* C3 *)

\* C3 as stated: for every N >= 0, load_history(ticker, last_n_days=N) returns
\* exactly the records dated today-N..today, in ascending date order.
C3_EveryN ==
    (last.op = "load_history" /\ last.n # <<>>)
        => last.ret = Returned(RecordsBetween(files, sanitize_ticker(last.ticker),
                                              Later(today - last.n[1], DateMin), today))

\* C3 as amended: for every N with 0 <= N <= today - date.min (the N for which
\* today - N is a date), load_history(ticker, last_n_days=N) returns exactly the
\* records dated today-N..today, in ascending date order, and none of the
\* records on disk that lie outside that window.
C3_WindowOfLastNDays ==
    /\ \A t \in Tickers, n \in {m \in LastNDays(today) : today - m[1] >= DateMin} :
          load_history(files, dirs, today, t, <<>>, <<>>, n)
            = Returned(RecordsBetween(files, sanitize_ticker(t), today - n[1], today))
    /\ (last.op = "load_history" /\ last.n # <<>> /\ today - last.n[1] >= DateMin)
          => last.ret = Returned(RecordsBetween(files, sanitize_ticker(last.ticker),
                                                today - last.n[1], today))

\* load_history(last_n_days=1) has returned a record while a well-formed record
\* of the same ticker, dated outside the window, is on disk
C3_Witness ==
    /\ last.op = "load_history"
    /\ last.n = <<1>>
    /\ last.ret.kind = "value"
    /\ last.ret.val # <<>>
    /\ \E d \in DateMin..(MaxDate + 1) :
          /\ HasRecord(files, sanitize_ticker(last.ticker), d)
          /\ (d < today - 1 \/ d > today)

-----------------------------------------------------------------------------
(* C4 *)

\* C4: load_history selects its window in one mode.  With last_n_days given,
\* start_date and end_date have no effect on the result, and the window is
\* today-last_n_days..today (where that is a window of dates; C3 is about the
\* last_n_days for which it is not).  Without last_n_days, a missing end_date is
\* today and a missing start_date is date.min, so that with neither given every
\* stored record dated today or earlier is returned.
C4_OneSelectionMode ==
    /\ (last.op = "load_history" /\ last.n # <<>>)
          => /\ \A s \in OptionalDates, e \in OptionalDates :
                   load_history(files, dirs, today, last.ticker, s, e, last.n) = last.ret
             /\ today - last.n[1] >= DateMin
                   => last.ret = Returned(RecordsBetween(files, sanitize_ticker(last.ticker),
                                                         today - last.n[1], today))
    /\ (last.op = "load_history" /\ last.n = <<>>)
          => /\ last.ret = Returned(RecordsBetween(files, sanitize_ticker(last.ticker),
                                       IF last.start = <<>> THEN DateMin ELSE last.start[1],
                                       IF last.end = <<>> THEN today ELSE last.end[1]))
             /\ \A s \in OptionalDates, e \in OptionalDates :
                   load_history(files, dirs, today, last.ticker, s, e, <<>>)
                     = Returned(RecordsBetween(files, sanitize_ticker(last.ticker),
                                               IF s = <<>> THEN DateMin ELSE s[1],
                                               IF e = <<>> THEN today ELSE e[1]))

\* load_history was called with last_n_days and with a start_date later than the
\* end_date, and has returned records all the same
C4_Witness ==
    /\ last.op = "load_history"
    /\ last.n # <<>>
    /\ last.start # <<>>
    /\ last.end # <<>>
    /\ last.start[1] > last.end[1]
    /\ last.ret.kind = "value"
    /\ last.ret.val # <<>>

-----------------------------------------------------------------------------
(* C5 *)

\* C5: a file whose name is no ISO date, or whose content does not parse, never
\* aborts load_history and contributes no record: the call returns what it
\* returns with the bad files removed from the directory, which is every
\* well-formed record inside the window, in order.
C5_BadFilesSkipped ==
    last.op = "load_history"
        => /\ last.ret = load_history(WithoutBadFiles(files), dirs, today, last.ticker,
                                      last.start, last.end, last.n)
           /\ DateRange(today, last.start, last.end, last.n) # <<>>
                => last.ret
                     = Returned(RecordsBetween(files, sanitize_ticker(last.ticker),
                                  DateRange(today, last.start, last.end, last.n)[1],
                                  DateRange(today, last.start, last.end, last.n)[2]))

\* load_history has returned a record from a directory that also holds a file
\* whose name is no date and, inside the window, a file whose content does not
\* parse; both come before the returned record in the scan
C5_Witness ==
    /\ last.op = "load_history"
    /\ sanitize_ticker(last.ticker) = StrayDir
    /\ \A f \in StrayFiles :
          /\ <<StrayDir, f.name>> \in DOMAIN files
          /\ IsBadFile(files, <<StrayDir, f.name>>)
    /\ last.n = <<today - DateMin>>
    /\ last.ret.kind = "value"
    /\ last.ret.val # <<>>

-----------------------------------------------------------------------------
(* C6 *)

\* C6: reading what was never saved is a value, not an error, and changes
\* nothing: load_result returns None when there is no file for that (ticker,
\* date), load_history returns the empty list when the ticker has no directory,
\* and neither call changes the store.
C6_NotFoundIsAValue ==
    /\ [](/\ \A t \in Tickers, d \in CallDates :
               FilePath(t, d) \notin DOMAIN files
                   => load_result(files, t, d) = ReturnedNone
          /\ \A t \in Tickers, c \in HistoryCalls(today) :
               sanitize_ticker(t) \notin dirs
                   => load_history(files, dirs, today, t, c[1], c[2], c[3]) = Returned(<<>>)
          /\ (last.op = "load_result" /\ FilePath(last.ticker, last.date) \notin DOMAIN files)
               => last.ret = ReturnedNone
          /\ (last.op = "load_history" /\ sanitize_ticker(last.ticker) \notin dirs)
               => last.ret = Returned(<<>>))
    /\ [][last'.op \in {"load_result", "load_history"}
             => (files' = files /\ dirs' = dirs)]_vars

\* load_result has returned None for a date that has no file, in a ticker
\* directory that exists and holds a record of another date
C6_Witness ==
    /\ last.op = "load_result"
    /\ last.ret = ReturnedNone
    /\ sanitize_ticker(last.ticker) \in dirs
    /\ \E d \in CallDates : HasRecord(files, sanitize_ticker(last.ticker), d)

-----------------------------------------------------------------------------
(* C7 *)

\* C7: the storage key is a function of (the ticker with every "." replaced by
\* "_", the ISO date), derived alike by save_result, load_result and
\* load_history: tickers that sanitize to one name share their keys, so a load
\* under one returns what was last saved under either.
C7_KeyOfSanitizedTicker ==
    /\ last.op = "save_result"
          => /\ IsDotsReplaced(last.ticker, last.ret[1])
             /\ last.ret[2] = isoformat(last.date) \o JsonSuffix
             /\ last.ret \in DOMAIN files
    /\ \A path \in DOMAIN saved, t \in Tickers :
          IsDotsReplaced(t, path[1])
              => /\ load_result(files, t, saved[path].date)
                     = Returned(RecordData(saved[path].ticker, saved[path].result,
                                           saved[path].date, saved[path].at))
                 /\ load_history(files, dirs, today, t,
                                 <<saved[path].date>>, <<saved[path].date>>, <<>>)
                     = Returned(<<RecordData(saved[path].ticker, saved[path].result,
                                             saved[path].date, saved[path].at)>>)
    /\ (last.op = "load_result" /\ FilePath(last.ticker, last.date) \in DOMAIN saved)
          => last.ret.kind = "value"

\* a load_result under "N_U" has returned the record that was saved under "N.U"
C7_Witness ==
    /\ last.op = "load_result"
    /\ last.ticker = <<"N", "_", "U">>
    /\ FilePath(last.ticker, last.date) \in DOMAIN saved
    /\ saved[FilePath(last.ticker, last.date)].ticker = <<"N", ".", "U">>
    /\ last.ret.kind = "value"
    /\ last.ret.val["decision"] = saved[FilePath(last.ticker, last.date)].result["decision"]

-----------------------------------------------------------------------------
(* C8 *)

Tag(kw) == <<"[">> \o kw \o <<"]">>

\* the keywords each pattern class matches somewhere in s
TagHits(s) == {kw \in {BUY, SELL, HOLD} : Contains(s, Tag(kw))}
JsonHits(s) == {JsonFieldAt(s, i)[1] : i \in {j \in 1..Len(s) : JsonFieldAt(s, j) # <<>>}}
LabelHits(s) == {UpperStr(LabelAt(s, i)[1]) : i \in {j \in 1..Len(s) : LabelAt(s, j) # <<>>}}
WordHits(s) == {WordAt(s, i)[1] : i \in {j \in 1..Len(s) : WordAt(s, j) # <<>>}}

\* no "buy", "sell" or "hold" anywhere in s, in any case
HasNoKeyword(s) == \A i \in 1..Len(s) : KeywordAt(s, i, TRUE) = <<>>

\* C8: extract_decision_from_result returns for every string, the empty one and
\* those without a keyword included; what it returns is BUY, SELL or HOLD, and is
\* HOLD whenever none of the four patterns matches.
C8_TotalWithHoldDefault ==
    decision # <<>>
        => /\ decision[1] \in {BUY, SELL, HOLD}
           /\ (/\ TagHits(Concat(text)) = {}
               /\ JsonHits(Concat(text)) = {}
               /\ LabelHits(Concat(text)) = {}
               /\ WordHits(Concat(text)) = {})
                => decision[1] = HOLD
           /\ HasNoKeyword(Concat(text)) => decision[1] = HOLD

\* the extractor has returned HOLD for a text that is not empty, holds a
\* keyword in lower case and matches none of the four patterns
C8_Witness ==
    /\ decision = <<HOLD>>
    /\ Concat(text) # <<>>
    /\ ~HasNoKeyword(Concat(text))
    /\ TagHits(Concat(text)) = {}
    /\ JsonHits(Concat(text)) = {}
    /\ LabelHits(Concat(text)) = {}
    /\ WordHits(Concat(text)) = {}

-----------------------------------------------------------------------------
(* C9 *)

\* C9 as stated: for every string that contains [SELL] the extractor returns
\* SELL, whatever other keyword occurs in it, another bracketed tag included.
C9_SellTagAlways ==
    (decision # <<>> /\ Contains(Concat(text), Tag(SELL))) => decision[1] = SELL

\* C9 as amended: for every string that contains [SELL] and does not contain
\* [BUY] the extractor returns SELL, whatever bare word, labelled or JSON-style
\* decision field or [HOLD] tag occurs in it and wherever; when [BUY] occurs as
\* well, it returns BUY.
C9_SellTagUnlessBuyTag ==
    (decision # <<>> /\ Contains(Concat(text), Tag(SELL)))
        => decision[1] = IF Contains(Concat(text), Tag(BUY)) THEN BUY ELSE SELL

\* the extractor has returned SELL for a text that starts with [HOLD], goes on
\* with another keyword and holds [SELL] after them
C9_Witness ==
    /\ decision = <<SELL>>
    /\ Len(text) > 2
    /\ text[1] = Tag(HOLD)
    /\ text[2] # Tag(SELL)
    /\ ~HasNoKeyword(text[2])
    /\ Contains(Concat(text), Tag(SELL))

-----------------------------------------------------------------------------
(* C10 *)

\* the keywords matched by the pattern class of highest priority that matches
TopClassHits(s) ==
    IF TagHits(s) # {} THEN TagHits(s)
    ELSE IF JsonHits(s) # {} THEN JsonHits(s)
    ELSE IF LabelHits(s) # {} THEN LabelHits(s)
    ELSE WordHits(s)

\* C10: the four pattern classes are applied in the order bracketed tag, quoted
\* JSON "decision" field, 'decision:' label (case-insensitive, upper-cased),
\* bare whole word (case-exact): the result is a keyword of the highest-priority
\* class that matches anywhere in the text, also when a lower-priority class
\* matches another keyword earlier in the text, and HOLD when no class matches,
\* as for the lower-case word 'buy' alone.
C10_PriorityOfClasses ==
    decision # <<>>
        => /\ TopClassHits(Concat(text)) # {} => decision[1] \in TopClassHits(Concat(text))
           /\ TopClassHits(Concat(text)) = {} => decision[1] = HOLD
           /\ decision[1] \in {BUY, SELL, HOLD}
           /\ Concat(text) = <<"b", "u", "y">> => decision[1] = HOLD

\* the extractor has returned the label's SELL for a text that starts with the
\* bare word BUY
C10_Witness ==
    /\ decision = <<SELL>>
    /\ TagHits(Concat(text)) = {}
    /\ JsonHits(Concat(text)) = {}
    /\ LabelHits(Concat(text)) = {SELL}
    /\ WordAt(Concat(text), 1) = <<BUY>>

-----------------------------------------------------------------------------
(* notification.py *)

\* at most MaxReports reports are handed to one send_batch_notification
MaxReports == 2

\* send_wechat_notification is called at most MaxCalls times in a behaviour
MaxCalls == 1

Newline == "\n"

\* the five characters before " | " in the subject, by code point
SubjectLabel ==
    <<"U+6BCF", "U+65E5", "U+6295", "U+8D44", "U+5206", "U+6790", " ", "|", " ">>

\* the width of the separator line
SeparatorWidth == 40

\* f"{'=' * 40}"
Separator == [i \in 1..SeparatorWidth |-> "="]

\* sep.join(parts)
RECURSIVE Join(_, _)
Join(sep, parts) ==
    IF parts = <<>> THEN <<>>
    ELSE IF Len(parts) = 1 THEN parts[1]
    ELSE parts[1] \o sep \o Join(sep, Tail(parts))

\* r.get(key, default)
DictGet(r, key, default) == IF key \in DOMAIN r THEN r[key] ELSE default

\* what send_wechat_notification meets: no PUSHPLUS_TOKEN, a post that succeeds,
\* a post that raises requests.exceptions.RequestException, one that raises
\* another Exception
NotifierEnvs == {"no_token", "ok", "request_error", "unexpected_error"}

\* send_wechat_notification(subject, body): the status string it returns
send_wechat_notification(subject, body, env) ==
    IF env = "no_token"
    THEN "WeChat notification skipped: PushPlus Token not configured."
    ELSE IF env = "ok" THEN "WeChat notification sent successfully."
    ELSE IF env = "request_error" THEN "Error sending WeChat notification: e"
    ELSE "Unexpected error sending WeChat notification: e"

\* f"{r['ticker']}[{r['decision']}]" for r in reports
SubjectDecisions(rs) == [i \in 1..Len(rs) |-> rs[i].ticker \o <<"[">> \o rs[i].decision \o <<"]">>]

\* the header line of a report in the body
BodyHeader(r) ==
    <<"U+1F4CA", " ">> \o r.ticker \o <<" ", "-", " ">> \o DictGet(r, "name", <<>>)
        \o <<" ", "[">> \o r.decision \o <<"]">>

\* a body whose reports are not followed by the empty part
RECURSIVE BodyParts_no_blank(_)
BodyParts_no_blank(rs) ==
    IF rs = <<>> THEN <<>>
    ELSE <<Separator, BodyHeader(Head(rs)), Separator, Head(rs).report>>
         \o BodyParts_no_blank(Tail(rs))

\* body_parts after the loop over the reports
RECURSIVE BodyParts(_)
BodyParts(rs) ==
    IF rs = <<>> THEN <<>>
    ELSE <<Separator, BodyHeader(Head(rs)), Separator, Head(rs).report, <<>>>>
         \o BodyParts(Tail(rs))

\* the subject and the body send_batch_notification builds, and the call of
\* send_wechat_notification with them
NotifierCall(rs, env) ==
    LET subject == SubjectLabel \o Join(<<" ">>, SubjectDecisions(rs))
        body == Join(<<Newline>>, BodyParts(rs))
    IN [subject |-> subject, body |-> body,
        status |-> send_wechat_notification(subject, body, env)]

\* a send_batch_notification without the test for the empty list
send_batch_notification_unguarded(rs, env) ==
    [ret |-> NotifierCall(rs, env).status, sent |-> <<NotifierCall(rs, env)>>]

\* send_batch_notification(reports): what it returns, and the calls of
\* send_wechat_notification it makes
send_batch_notification(rs, env) ==
    IF rs = <<>> THEN [ret |-> "No reports to send.", sent |-> <<>>]
    ELSE [ret |-> NotifierCall(rs, env).status, sent |-> <<NotifierCall(rs, env)>>]

\* the reports a caller hands over; the second has no name and an empty report,
\* the third is a second report of the first ticker, with an empty name and a
\* report of several lines
ReportPool ==
    {[ticker |-> <<"N", ".", "U">>, name |-> <<"N", "v">>,
      decision |-> <<"B", "U", "Y">>, report |-> <<"u", "p">>],
     [ticker |-> <<"B">>, decision |-> <<"S", "E", "L", "L">>, report |-> <<>>],
     [ticker |-> <<"N", ".", "U">>, name |-> <<>>,
      decision |-> <<"H", "O", "L", "D">>, report |-> <<"=", Newline, Newline, "b">>]}

ReportLists == UNION {[1..n -> ReportPool] : n \in 0..MaxReports}

\* a caller calls send_batch_notification(rs)
SendBatch(rs, env) ==
    LET out == send_batch_notification(rs, env)
    IN /\ Len(calls) < MaxCalls \/ rs = <<>>
       /\ calls' = calls \o out.sent
       /\ last' = [op |-> "send_batch_notification", reports |-> rs, env |-> env,
                   sent |-> out.sent, ret |-> out.ret]
       /\ UNCHANGED <<files, dirs, today, saved, nsaves, text, decision>>
       /\ UNCHANGED <<runVars, macdVars>>

NextNotify == \E rs \in ReportLists, env \in NotifierEnvs : SendBatch(rs, env)

SpecNotify == Init /\ [][NextNotify]_vars

-----------------------------------------------------------------------------
(* C11: send_batch_notification called with an empty list returns the
   nothing-to-send status and makes no call of the notifier, whatever the
   notifier's configuration. *)
C11_EmptyListSendsNothing ==
    /\ [](last.op = "send_batch_notification" /\ last.reports = <<>>
            => last.ret = "No reports to send." /\ last.sent = <<>>)
    /\ [][last'.op = "send_batch_notification" /\ last'.reports = <<>>
            => calls' = calls]_vars

\* an empty list was handed over while the notifier is configured and reachable
C11_Witness ==
    last.op = "send_batch_notification" /\ last.reports = <<>> /\ last.env = "ok"

\* the ticker[decision] pairs of the results, in their order, a space between two
RECURSIVE SubjectPairs(_)
SubjectPairs(rs) ==
    IF rs = <<>> THEN <<>>
    ELSE Head(rs).ticker \o <<"[">> \o Head(rs).decision \o <<"]">>
         \o (IF Len(rs) > 1 THEN <<" ">> \o SubjectPairs(Tail(rs)) ELSE <<>>)

\* separator, header, separator, the report, each ended by a newline; the newline
\* after the report's begins the blank line
ReportBlock(r) ==
    Separator \o <<Newline>> \o BodyHeader(r) \o <<Newline>> \o Separator \o <<Newline>>
        \o r.report \o <<Newline>>

\* the blocks of the results, in their order, a newline between two
RECURSIVE ReportBlocks(_)
ReportBlocks(rs) ==
    IF rs = <<>> THEN <<>>
    ELSE ReportBlock(Head(rs))
         \o (IF Len(rs) > 1 THEN <<Newline>> \o ReportBlocks(Tail(rs)) ELSE <<>>)

(* C12: for a non-empty list, send_batch_notification hands exactly one
   message to the notifier; its subject is the fixed label followed by the
   ticker[decision] pairs of the results in input order, its body is, per
   result and in input order, separator, header, separator, the whole report
   and a blank line; what the notifier returns is returned unchanged. *)
C12_OneMessageOfAllReports ==
    last.op = "send_batch_notification" /\ last.reports # <<>>
        => /\ Len(last.sent) = 1
           /\ last.sent[1].subject = SubjectLabel \o SubjectPairs(last.reports)
           /\ last.sent[1].body = ReportBlocks(last.reports)
           /\ last.ret = last.sent[1].status
           /\ calls # <<>> /\ calls[Len(calls)] = last.sent[1]

\* two different results were handed over, the first without a name, and the
\* notifier reported an error
C12_Witness ==
    /\ last.op = "send_batch_notification"
    /\ Len(last.reports) > 1
    /\ last.reports[1] # last.reports[2]
    /\ "name" \notin DOMAIN last.reports[1]
    /\ last.reports[2].report # <<>>
    /\ last.env = "request_error"

-----------------------------------------------------------------------------
(* main.py: run() *)

\* stocks.yaml lists at most MaxStocks stocks
MaxStocks == 2

\* the entries of stocks.yaml; the second has a ticker only, and its results
\* are stored under the key of the first
StockPool ==
    {[ticker |-> <<"N", ".", "U">>, name |-> <<"N", "v">>, shares |-> 1, avg_cost |-> 0],
     [ticker |-> <<"N", "_", "U">>],
     [ticker |-> <<"B">>, name |-> <<"B", "b">>, shares |-> 2, avg_cost |-> 1]}

\* the "stocks" list of stocks.yaml; the empty list also stands for no file
StockConfigs == UNION {[1..n -> StockPool] : n \in 0..MaxStocks}

\* the stock built from TARGET_STOCK and TRADE_QUANTITY, at their defaults
FallbackStock ==
    [ticker |-> <<"N", "V", "D", "A", ".", "U", "S">>,
     name |-> <<"N", "V", "D", "A", ".", "U", "S">>, shares |-> 1, avg_cost |-> 0]

\* load_stocks_config()
load_stocks_config(config) == IF config # <<>> THEN config ELSE <<FallbackStock>>

\* what str(trading_crew.crew().kickoff(inputs)) is when nothing raises
CrewTexts == {<<"[", "S", "E", "L", "L", "]">>, <<"b", "u", "y">>}

\* the try block of run_single_stock raises, or the crew returns a text
CrewOutcomes == {<<>>} \cup {<<t>> : t \in CrewTexts}

\* run_single_stock(stock): None (<<>>) or the result dict
run_single_stock(stock, outcome) ==
    LET ticker == stock.ticker
        name == DictGet(stock, "name", ticker)
        shares == DictGet(stock, "shares", 0)
        avg_cost == DictGet(stock, "avg_cost", 0)
    IN IF outcome = <<>> THEN <<>>
       ELSE <<[ticker |-> ticker, name |-> name,
               decision |-> extract_decision_from_result(outcome[1]),
               report |-> outcome[1], shares |-> shares, avg_cost |-> avg_cost]>>

\* a result dict whose decision is read under a key the result does not have
SavedFields_wrong_key(r) ==
    [decision |-> DictGet(r, "Decision", HOLD), report |-> r.report,
     shares |-> r.shares, avg_cost |-> r.avg_cost]

\* the result dict run() hands to save_result
SavedFields(r) ==
    [decision |-> r.decision, report |-> r.report, shares |-> r.shares,
     avg_cost |-> r.avg_cost]

\* save_result returns, or open() raises, or json.dump raises after open()
\* has created or truncated the file
SaveOutcomes == {"ok", "open_raises", "dump_raises"}

\* a loop that ends at the first stock whose analysis or save failed
LoopNext_stop_on_failure(failed) ==
    IF idx < Len(stocks) /\ ~failed
    THEN pc' = "analyze" /\ idx' = idx + 1
    ELSE pc' = "notify" /\ idx' = idx

\* the for loop of run(): on to the next stock, or past the loop
LoopNext(failed) ==
    IF idx < Len(stocks)
    THEN pc' = "analyze" /\ idx' = idx + 1
    ELSE pc' = "notify" /\ idx' = idx

\* run() up to the loop
RunStart(config) ==
    /\ pc = "start"
    /\ stocks' = load_stocks_config(config)
    /\ IF stocks' = <<>>
       THEN pc' = "done" /\ idx' = idx /\ log' = Append(log, [ev |-> "no_stocks"])
       ELSE pc' = "analyze" /\ idx' = 1 /\ log' = log
    /\ reports' = <<>>
    /\ run_result' = <<>>
    /\ UNCHANGED <<files, dirs, today, saved, nsaves, last, text, decision>>
    /\ UNCHANGED <<notifyVars, macdVars>>

\* a run() whose save block stands after the loop: only the last result is saved
AnalyzedNext_save_after_loop ==
    IF idx < Len(stocks)
    THEN pc' = "analyze" /\ idx' = idx + 1
    ELSE pc' = "save" /\ idx' = idx

\* run(): a result that is not None is saved next
AnalyzedNext == pc' = "save" /\ idx' = idx

\* result = run_single_stock(stock), and reports.append(result) if it is not None
AnalyzeStock(outcome) ==
    /\ pc = "analyze"
    /\ LET r == run_single_stock(stocks[idx], outcome)
       IN /\ run_result' = r
          /\ IF r = <<>>
             THEN /\ log' = log \o <<[ev |-> "kickoff", i |-> idx],
                                     [ev |-> "error", i |-> idx]>>
                  /\ reports' = reports
                  /\ LoopNext(TRUE)
             ELSE /\ log' = log \o <<[ev |-> "kickoff", i |-> idx],
                                     [ev |-> "analyzed", i |-> idx, result |-> r[1]]>>
                  /\ reports' = Append(reports, r[1])
                  /\ AnalyzedNext
    /\ UNCHANGED <<stocks, files, dirs, today, saved, nsaves, last, text, decision>>
    /\ UNCHANGED <<notifyVars, macdVars>>

\* the try around save_result in run()
SaveStock(outcome) ==
    /\ pc = "save"
    /\ LET r == run_result[1]
           file_path == FilePath(r.ticker, today)
       IN IF outcome = "ok"
          THEN /\ save_result_call(r.ticker, SavedFields(r), <<>>)
               /\ log' = Append(log, [ev |-> "saved", i |-> idx, path |-> file_path,
                                      data |-> json_load(files'[file_path])])
          ELSE /\ dirs' = dirs \cup {sanitize_ticker(r.ticker)}
               /\ files' = IF outcome = "dump_raises"
                           THEN (file_path :> CorruptContent) @@ files
                           ELSE files
               /\ saved' = saved
               /\ nsaves' = nsaves + 1
               /\ last' = [op |-> "save_result", ticker |-> r.ticker,
                           result |-> SavedFields(r), date |-> today,
                           ret |-> Raised(outcome)]
               /\ log' = Append(log, [ev |-> "save_failed", i |-> idx,
                                      path |-> file_path,
                                      opened |-> outcome = "dump_raises"])
    /\ LoopNext(outcome # "ok")
    /\ UNCHANGED <<stocks, run_result, reports, today, text, decision>>
    /\ UNCHANGED <<notifyVars, macdVars>>

\* a test that lets the notification go out only when no stock failed
ShouldNotify_complete(rs) == Len(rs) = Len(stocks)

\* if reports:
ShouldNotify(rs) == rs # <<>>

\* run() after the loop
Notify(env) ==
    /\ pc = "notify"
    /\ IF ShouldNotify(reports)
       THEN LET out == send_batch_notification(reports, env)
            IN /\ calls' = calls \o out.sent
               /\ log' = Append(log, [ev |-> "notify", status |-> out.ret])
       ELSE /\ calls' = calls
            /\ log' = Append(log, [ev |-> "warning"])
    /\ pc' = "done"
    /\ UNCHANGED <<stocks, idx, run_result, reports>>
    /\ UNCHANGED <<files, dirs, today, saved, nsaves, last, text, decision, macdVars>>

\* the steps of run()
RunStep ==
    \/ \E config \in StockConfigs : RunStart(config)
    \/ \E outcome \in CrewOutcomes : AnalyzeStock(outcome)
    \/ \E outcome \in SaveOutcomes : SaveStock(outcome)
    \/ \E env \in NotifierEnvs : Notify(env)

NextRun == RunStep

SpecRun == Init /\ [][NextRun]_vars

-----------------------------------------------------------------------------
(* What has happened in run(), read from its log *)

\* the log has an entry of this kind for the stock at position i
HasEvent(kind, i) == \E k \in 1..Len(log) : log[k].ev = kind /\ log[k].i = i

\* that entry's position in the log
EventAt(kind, i) == CHOOSE k \in 1..Len(log) : log[k].ev = kind /\ log[k].i = i

\* what run_single_stock returned for the stock at position i
ResultOf(i) == log[EventAt("analyzed", i)].result

\* the file save_result was to write for the stock at position i
PathOf(i) ==
    IF HasEvent("saved", i) THEN log[EventAt("saved", i)].path
    ELSE log[EventAt("save_failed", i)].path

\* a later stock's save_result has opened the same file
WrittenLater(i) ==
    \E k \in 1..Len(log) :
        /\ log[k].ev \in {"saved", "save_failed"}
        /\ log[k].i > i
        /\ log[k].path = PathOf(i)
        /\ log[k].ev = "save_failed" => log[k].opened

\* the message carries the result: its ticker[decision] pair in the subject,
\* its block in the body
InMessage(call, r) ==
    /\ Contains(call.subject, r.ticker \o <<"[">> \o r.decision \o <<"]">>)
    /\ Contains(call.body, ReportBlock(r))

(* C13: in run(), whatever stocks fail (run_single_stock's try block raising,
   or save_result raising), every stock of the list is analyzed, every stock
   that did not fail has its result saved and is in the batch notification,
   and run() goes on to its end. *)
C13_FailuresAreIsolated ==
    /\ pc = "done"
          => \A i \in 1..Len(stocks) :
                /\ HasEvent("kickoff", i)
                /\ HasEvent("analyzed", i) \/ HasEvent("error", i)
                /\ HasEvent("analyzed", i)
                      => /\ HasEvent("saved", i) \/ HasEvent("save_failed", i)
                         /\ calls # <<>> /\ InMessage(calls[1], ResultOf(i))
                /\ HasEvent("saved", i) /\ ~WrittenLater(i)
                      => /\ PathOf(i) \in DOMAIN files
                         /\ json_parses(files[PathOf(i)])
                         /\ json_load(files[PathOf(i)]).decision = ResultOf(i).decision
                         /\ json_load(files[PathOf(i)]).report = ResultOf(i).report
    /\ pc # "done" => ENABLED RunStep

\* run() has ended; the first stock's analysis raised, the second's save
\* raised, and the last stock was analyzed, saved and notified
C13_Witness ==
    /\ pc = "done"
    /\ Len(stocks) = MaxStocks
    /\ \/ HasEvent("error", 1) /\ HasEvent("saved", Len(stocks))
       \/ HasEvent("save_failed", 1) /\ HasEvent("saved", Len(stocks))
    /\ calls # <<>>

-----------------------------------------------------------------------------
\* the results of the stocks from position i on whose analysis succeeded, in
\* the order of the configuration
RECURSIVE SucceededFrom(_)
SucceededFrom(i) ==
    IF i > Len(stocks) THEN <<>>
    ELSE (IF HasEvent("analyzed", i) THEN <<ResultOf(i)>> ELSE <<>>)
         \o SucceededFrom(i + 1)

(* C14: at the end of run(), when the analysis of at least one stock
   succeeded, the notifier has been called exactly once, with the message of
   exactly the succeeded stocks in configuration order; when every analysis
   failed, the notifier has not been called and a warning is the last thing
   logged.  Before the end the notifier has not been called. *)
C14_NotificationOfTheSucceeded ==
    /\ pc = "done" /\ SucceededFrom(1) # <<>>
          => /\ Len(calls) = 1
             /\ calls[1].subject = SubjectLabel \o SubjectPairs(SucceededFrom(1))
             /\ calls[1].body = ReportBlocks(SucceededFrom(1))
             /\ log[Len(log)].ev = "notify"
    /\ pc = "done" /\ SucceededFrom(1) = <<>>
          => /\ calls = <<>>
             /\ log[Len(log)].ev = "warning"
    /\ pc # "done" => calls = <<>>

\* run() has ended with a notification although a stock failed before one
\* that succeeded
C14_Witness ==
    /\ pc = "done"
    /\ Len(calls) = 1
    /\ HasEvent("error", 1)
    /\ HasEvent("analyzed", Len(stocks))

-----------------------------------------------------------------------------
(* tools/yfinance_tools.py and tools/longbridge_tools.py: get_macd *)

\* the price history holds at most MaxCandles closing prices
MaxCandles == 36

\* the windows of ta.trend.MACD(close), which get_macd leaves at their defaults
window_fast == 12
window_slow == 26
window_sign == 9

\* A value the indicator is computed with is NaN or a number; which number it
\* is is not modelled.
NaN == "NaN"
Num == "num"

\* series.ewm(span=periods, min_periods=periods, adjust=False).mean(): NaN
\* until periods observations that are not NaN have been seen
ewm_mean(series, periods) ==
    [t \in 1..Len(series) |->
        IF Cardinality({k \in 1..t : series[k] # NaN}) < periods THEN NaN ELSE Num]

\* a - b on two columns: NaN where either is NaN
Minus(a, b) == [t \in 1..Len(a) |-> IF a[t] = NaN \/ b[t] = NaN THEN NaN ELSE Num]

\* MACD(hist["Close"]): macd(), macd_signal() and macd_diff() added to hist
WithMACD(closes) ==
    LET close == [t \in 1..Len(closes) |-> Num]
        macd == Minus(ewm_mean(close, window_fast), ewm_mean(close, window_slow))
        macd_signal == ewm_mean(macd, window_sign)
        macd_diff == Minus(macd, macd_signal)
    IN [t \in 1..Len(closes) |->
           [Close |-> closes[t], MACD |-> macd[t], MACD_Signal |-> macd_signal[t],
            MACD_Hist |-> macd_diff[t]]]

\* hist.dropna(subset=["MACD", "MACD_Signal", "MACD_Hist"])
dropna(rows) ==
    LET Keep(row) == row.MACD # NaN /\ row.MACD_Signal # NaN /\ row.MACD_Hist # NaN
    IN SelectSeq(rows, Keep)

\* what get_macd returns: a message, or (hist_list, latest_info)
Failure(msg) == [kind |-> "failure", msg |-> msg]
Success(hist_list, latest) == [kind |-> "success", hist_list |-> hist_list, latest |-> latest]

\* YFinanceMACDTool.get_macd(ticker), closes being what _fetch_data returned
YFinance_get_macd(closes) ==
    IF closes = <<>> THEN Failure("Could not calculate MACD due to data fetching issues.")
    ELSE LET rows == WithMACD(closes)
             latest_data == rows[Len(rows)]
         IN IF latest_data.MACD = NaN \/ latest_data.MACD_Signal = NaN
            THEN Failure("Could not calculate valid MACD. Insufficient data?")
            ELSE Success(dropna(rows), latest_data)

\* LongBridgeMACDTool.get_macd(ticker), closes being what get_history returned
LongBridge_get_macd(closes) ==
    IF closes = <<>> THEN Failure("Could not calculate MACD due to data fetching issues.")
    ELSE LET rows == WithMACD(closes)
             latest_data == rows[Len(rows)]
         IN IF latest_data.MACD = NaN \/ latest_data.MACD_Signal = NaN
            THEN Failure("Could not calculate valid MACD. Insufficient data?")
            ELSE Success(rows, latest_data)

\* the closing price of the next day: the first is 10 or 11, the second is the
\* first or one more, and the series goes on as it began
NextCloses ==
    IF hist = <<>> THEN {10, 11}
    ELSE IF Len(hist) = 1 THEN {hist[1], hist[1] + 1}
    ELSE {hist[Len(hist)] + (hist[2] - hist[1])}

\* the provider's history has one more day
AppendCandle(close) ==
    /\ Len(hist) < MaxCandles
    /\ hist' = Append(hist, close)
    /\ last' = NoCall
    /\ UNCHANGED <<files, dirs, today, saved, nsaves, text, decision>>
    /\ UNCHANGED <<notifyVars, runVars>>

YFinanceGetMacd ==
    /\ last' = [op |-> "get_macd", tool |-> "YFinanceMACDTool",
                ret |-> YFinance_get_macd(hist)]
    /\ UNCHANGED <<files, dirs, today, saved, nsaves, text, decision>>
    /\ UNCHANGED <<notifyVars, runVars, macdVars>>

LongBridgeGetMacd ==
    /\ last' = [op |-> "get_macd", tool |-> "LongBridgeMACDTool",
                ret |-> LongBridge_get_macd(hist)]
    /\ UNCHANGED <<files, dirs, today, saved, nsaves, text, decision>>
    /\ UNCHANGED <<notifyVars, runVars, macdVars>>

NextMACD ==
    \/ \E close \in NextCloses : AppendCandle(close)
    \/ YFinanceGetMacd
    \/ LongBridgeGetMacd

SpecMACD == Init /\ [][NextMACD]_vars

-----------------------------------------------------------------------------
(* C15: for every price series shorter than slow + signal, the empty one
   included, get_macd returns a failure and never a success carrying rows. *)
C15_ShortSeriesFails ==
    last.op = "get_macd" /\ Len(hist) < window_slow + window_sign
        => last.ret.kind = "failure"

(* C16: whenever get_macd succeeds, every row it returns has a MACD line, a
   signal line and a histogram that are not NaN, for both tools. *)
C16_NoUndefinedRows ==
    last.op = "get_macd" /\ last.ret.kind = "success"
        => \A t \in 1..Len(last.ret.hist_list) :
              /\ last.ret.hist_list[t].MACD # NaN
              /\ last.ret.hist_list[t].MACD_Signal # NaN
              /\ last.ret.hist_list[t].MACD_Hist # NaN

-----------------------------------------------------------------------------
\* the kinds of log entries that are about one stock
StockEvents == {"kickoff", "error", "analyzed", "saved", "save_failed"}

\* the kinds of log entries that end the processing of a stock
EndEvents == {"error", "saved", "save_failed"}

\* by position p of the log, the processing of the stock at position j is over
FinishedBefore(j, p) ==
    \E k \in 1..(p - 1) : log[k].ev \in EndEvents /\ log[k].i = j

(* C17: run() processes the stocks one at a time in configuration order: the
   agent pipeline, the decision extraction and the save of a stock are over
   (or have failed) before anything starts for the next stock, so that at
   most one stock, and one save, is in progress at any time; the
   notification comes after the last stock has been processed. *)
C17_OneStockAtATime ==
    /\ \A p, q \in 1..Len(log) :
          p < q /\ log[p].ev \in StockEvents /\ log[q].ev \in StockEvents
              => /\ log[p].i <= log[q].i
                 /\ log[p].i = log[q].i => log[p].ev # log[q].ev
    /\ \A p \in 1..Len(log) :
          /\ log[p].ev = "kickoff"
                => \A j \in 1..(log[p].i - 1) : FinishedBefore(j, p)
          /\ log[p].ev \in {"saved", "save_failed"}
                => /\ \E k \in 1..(p - 1) : log[k].ev = "analyzed" /\ log[k].i = log[p].i
                   /\ ~FinishedBefore(log[p].i, p)
          /\ log[p].ev \in {"notify", "warning"}
                => /\ p = Len(log)
                   /\ \A j \in 1..Len(stocks) : FinishedBefore(j, p)
    /\ Cardinality({j \in 1..Len(stocks) :
                       HasEvent("kickoff", j) /\ ~FinishedBefore(j, Len(log) + 1)}) <= 1
    /\ pc = "save" => HasEvent("analyzed", idx) /\ ~FinishedBefore(idx, Len(log) + 1)

\* run() has ended after saving the results of all its stocks, more than one
C17_Witness ==
    /\ pc = "done"
    /\ Len(stocks) > 1
    /\ \A j \in 1..Len(stocks) : HasEvent("saved", j)
    /\ log[Len(log)].ev = "notify"

-----------------------------------------------------------------------------
\* the storage key of a ticker and a date
StorageKey(ticker, d) == <<sanitize_ticker(ticker), d>>

\* load_result returns the same for every key other than the given one
SameElsewhere(fs1, fs2, key) ==
    \A t \in Tickers, d \in CallDates :
        StorageKey(t, d) # key => load_result(fs1, t, d) = load_result(fs2, t, d)

(* C18: save_result(ticker, result, date) changes only the record stored
   under the key (sanitized ticker, date): for every other key load_result
   returns after the call what it returned before; load_result and
   load_history change what load_result returns for no key at all. *)
C18_SaveChangesOneKey ==
    [][/\ last'.op = "save_result"
            => SameElsewhere(files, files', StorageKey(last'.ticker, last'.date))
       /\ last'.op \in {"load_result", "load_history"}
            => SameElsewhere(files, files', <<>>)]_vars

\* save_result has just written a record into a ticker directory that holds a
\* record of another date
C18_Witness ==
    /\ last.op = "save_result"
    /\ \E d \in CallDates :
          d # last.date /\ HasRecord(files, sanitize_ticker(last.ticker), d)

-----------------------------------------------------------------------------
\* the record stored for the stock at position i, as a result of the notification
StoredAsReport(k) ==
    [ticker |-> log[k].data.ticker,
     name |-> DictGet(stocks[log[k].i], "name", stocks[log[k].i].ticker),
     decision |-> log[k].data.decision,
     report |-> log[k].data.report]

(* C19: at the end of run(), every stock whose result save_result stored in
   this run is in the batch notification with the decision and the report
   that were stored; a stock whose save_result raised is in the notification
   as well, although no record was stored for it. *)
C19_SavedAreNotified ==
    pc = "done"
        => \A k \in 1..Len(log) :
              /\ log[k].ev = "saved"
                    => /\ Len(calls) = 1
                       /\ InMessage(calls[1], StoredAsReport(k))
                       /\ log[k].data.ticker = stocks[log[k].i].ticker
              /\ log[k].ev = "save_failed"
                    => /\ Len(calls) = 1
                       /\ InMessage(calls[1], ResultOf(log[k].i))

\* run() has ended; a SELL was stored for one stock, and the save of another
\* raised and left no file, and both are in the notification
C19_Witness ==
    /\ pc = "done"
    /\ \E k \in 1..Len(log) :
          log[k].ev = "saved" /\ log[k].data.decision = SELL
    /\ \E k \in 1..Len(log) :
          /\ log[k].ev = "save_failed"
          /\ log[k].path \notin DOMAIN files
          /\ InMessage(calls[1], ResultOf(log[k].i))

=============================================================================
